---- MODULE Spec2Model ----
(***************************************************************************)
(* OAuth2 client of frappe-mcp-server.                                     *)
(*                                                                         *)
(*  - Tools (open_webui_functions/erpnext_oauth_integration.py): the       *)
(*    client-credentials token provider with its token cache, and the      *)
(*    authenticated request dispatcher built on it.                        *)
(*  - get_oauth_token_automated (scripts/get-oauth-token-authcode.py):     *)
(*    the authorization-code flow.                                         *)
(*                                                                         *)
(* Several callers share one Tools instance.  Every caller runs one        *)
(* method at a time; a method is a sequence of steps, one per read or      *)
(* write of the shared fields and one per network exchange, so that other  *)
(* callers and the clock can move between any two of them.                 *)
(***************************************************************************)
EXTENDS Integers, Sequences, FiniteSets, TLC

VARIABLES
    valves,             \* Tools.valves: CACHE_TOKEN, OAUTH_CLIENT_ID, OAUTH_CLIENT_SECRET
    _cached_token,      \* Tools._cached_token: None or an access token
    _token_expires_at,  \* Tools._token_expires_at: <<>> (None) or <<t>> (a datetime)
    now,                \* datetime.now(), in seconds
    pc,                 \* pc[c]: where caller c stands in the method it runs
    call,               \* call[c]: arguments, locals and counters of c's current call
    nCalls,             \* calls started so far
    nTicks,             \* clock advances so far
    granted,            \* history: what the token endpoint granted the cached token
    flow                \* the authorization-code flow (one invocation)

vars == <<valves, _cached_token, _token_expires_at, now, pc, call,
          nCalls, nTicks, granted, flow>>

toolsVars == <<valves, _cached_token, _token_expires_at, now, pc, call,
               nCalls, nTicks, granted>>

-----------------------------------------------------------------------------
(* Bounds of the model *)

MaxCalls == 3
MaxTicks == 2

Callers == {"c1", "c2"}
FirstCaller == "c1"

\* Clock advances the model takes: 3539 + 1 = 3540.
Ticks == {1, 3539}

\* expires_in values a token response may carry.
ExpiresIn == {60, 3600}


-----------------------------------------------------------------------------
(* Values *)

None == "None"

BUFFER == 60
DEFAULT_EXPIRES_IN == 3600

NoDatetime == <<>>
Datetime(t) == <<t>>

\* Python truthiness of an Optional[str]
Truthy(s) == s # None /\ s # ""

\* The access token the token endpoint issues to the n-th call, if asked.
Tok(n) == "tok" \o ToString(n)

Fields == {"user_id", "user_email", "user_name"}

\* The user of the contexts the model passes to _make_authenticated_request.
Users ==
    {[user_id |-> "u2", user_email |-> "x@y.org", user_name |-> "Bob"]}

\* user_context: <<>> is None, <<d>> is the dict d.
NoContext == <<>>
Dicts == {[f \in S |-> u[f]] : u \in Users, S \in SUBSET Fields}
UserContexts == {NoContext} \cup {<<d>> : d \in Dicts}

\* `if user_context:` -- None and the empty dict are both false.
ContextTruthy(uc) == uc # NoContext /\ DOMAIN uc[1] # {}

Methods == {"GET", "post", "PUT"}

\* user_email arguments of erpnext_business_query
UserEmails == {None, "", "a@b.com"}

\* Status codes the resource server answers with
Statuses == {200, 401, 500}

\* Ways a token request fails: in transport, with a status other than 200,
\* with a 200 whose body is no JSON
FetchFailures == {"exception", "http_error", "bad_json"}

\* str.upper() on the methods of the model
Upper(m) == CASE m = "post" -> "POST"
              [] m = "get" -> "GET"
              [] OTHER -> m

HeaderOf(f) == CASE f = "user_id" -> "X-MCP-User-ID"
                 [] f = "user_email" -> "X-MCP-User-Email"
                 [] f = "user_name" -> "X-MCP-User-Name"

FieldOf(h) == CHOOSE f \in Fields : HeaderOf(f) = h

\* The headers _make_authenticated_request builds (lines 105-117).
HeaderNames(token, uc) ==
    {"Content-Type"} \cup
    (IF Truthy(token)
       THEN {"Authorization"} \cup
            (IF ContextTruthy(uc)
               THEN {HeaderOf(f) : f \in (DOMAIN uc[1]) \cap Fields}
               ELSE {})
       ELSE {})

BuildHeaders(token, uc) ==
    [h \in HeaderNames(token, uc) |->
        CASE h = "Content-Type" -> "application/json"
          [] h = "Authorization" -> "Bearer " \o token
          [] OTHER -> uc[1][FieldOf(h)]]

NoHeaders == [h \in {} |-> ""]

\* The cache test of _get_oauth_token, line 59: datetime.now() < expires_at
StillValid(t, expires_at) == t < expires_at

\* Line 82: datetime.now() + timedelta(seconds=expires_in - 60)
ExpiresAt(t, expires_in) == t + (expires_in - BUFFER)

\* A variant of line 62 with `and` for `or`: unset only when both are empty
Unconfigured_Both(v) == v.OAUTH_CLIENT_ID = "" /\ v.OAUTH_CLIENT_SECRET = ""

\* Line 62: not client_id or not client_secret
Unconfigured(v) == v.OAUTH_CLIENT_ID = "" \/ v.OAUTH_CLIENT_SECRET = ""

\* token_data.get("expires_in", 3600): the field of the body, or the default
ExpiresInOf(body) == IF body.expires_in.kind = "absent"
                       THEN [kind |-> "int", v |-> DEFAULT_EXPIRES_IN]
                       ELSE body.expires_in

\* Line 82, expires_in - 60: a number, or TypeError for a str such as "60"
IsNumber(e) == e.kind = "int"

\* token_data.get("access_token"): the field of the body, or None
AccessTokenOf(body, n) == IF body.access_token THEN Tok(n) ELSE None

\* Bodies of a 200 answer of the token endpoint: access_token present or
\* not; expires_in absent, a JSON number, or a JSON string holding a
\* number ("60").
TokenBodies ==
    [access_token : BOOLEAN,
     expires_in : {[kind |-> "absent", v |-> 0], [kind |-> "str", v |-> BUFFER]}
                  \cup {[kind |-> "int", v |-> e] : e \in ExpiresIn}]

\* History of the cached token: <<>>, or <<g>> with g.at the time the token
\* was fetched and g.expires_in the lifetime the token endpoint gave it.
NoGrant == <<>>

NoBody == [access_token |-> FALSE, expires_in |-> [kind |-> "absent", v |-> 0]]

-----------------------------------------------------------------------------
(* Calls *)

NewCall(op, no) ==
    [op |-> op,                 \* the method of Tools the caller entered
     no |-> no,                 \* the number of the call
     user_context |-> NoContext,\* argument of _make_authenticated_request
     token |-> None,            \* what _get_oauth_token returned
     body |-> NoBody,           \* token_data
     headers |-> NoHeaders,     \* headers of the resource request sent
     status |-> 0,              \* response.status_code of the resource request
     result |-> "",             \* how the call ended
     found |-> "",              \* what the cache test found
     outcome |-> "",            \* how _get_oauth_token ended
     nTok |-> 0,                \* token requests sent by this call
     nRes |-> 0,                \* resource requests sent by this call
     nInv |-> 0]                \* cache invalidations made by this call

\* A call that ended stays in view, with what it returned, until its
\* caller takes the result; nothing else moves before that.
Settled == \A d \in Callers : pc[d] # "done"

At(c, label) == pc[c] = label /\ Settled

CanStart(c) ==
    /\ At(c, "idle")
    /\ nCalls < MaxCalls

Begin(c, op, at) ==
    /\ CanStart(c)
    /\ call' = [call EXCEPT ![c] = NewCall(op, nCalls + 1)]
    /\ pc' = [pc EXCEPT ![c] = at]
    /\ nCalls' = nCalls + 1

\* _get_oauth_token returns t to whoever called it.
GtReturn(c, t, outcome) ==
    /\ call' = [call EXCEPT ![c].token = t,
                            ![c].outcome = outcome,
                            ![c].body = NoBody,
                            ![c].result = IF call[c].op = "get_token" THEN t ELSE @]
    /\ pc' = [pc EXCEPT ![c] = IF call[c].op = "get_token" THEN "done" ELSE "d_send"]

\* An exception leaves _get_oauth_token or _make_authenticated_request:
\* erpnext_business_query catches it (line 208), other callers see it.
Raise(c, exc) ==
    /\ call' = [call EXCEPT
           ![c].result = IF call[c].op = "business_query"
                           THEN "connection_error" ELSE exc]
    /\ pc' = [pc EXCEPT ![c] = "done"]

-----------------------------------------------------------------------------
(* Tools._get_oauth_token *)

StartGetToken(c) ==
    /\ Begin(c, "get_token", "gt_check_token")
    /\ UNCHANGED <<valves, _cached_token, _token_expires_at, now,
                   nTicks, granted, flow>>

\* Lines 56-57: self.valves.CACHE_TOKEN and self._cached_token
GtCheckToken(c) ==
    /\ At(c, "gt_check_token")
    /\ IF valves.CACHE_TOKEN /\ Truthy(_cached_token)
         THEN /\ pc' = [pc EXCEPT ![c] = "gt_check_expiry"]
              /\ call' = call
         ELSE /\ pc' = [pc EXCEPT ![c] = "gt_credentials"]
              /\ call' = [call EXCEPT ![c].found =
                             IF valves.CACHE_TOKEN THEN "absent" ELSE "disabled"]
    /\ UNCHANGED <<valves, _cached_token, _token_expires_at, now,
                   nCalls, nTicks, granted, flow>>

\* Line 58: and self._token_expires_at
GtCheckExpiry(c) ==
    /\ At(c, "gt_check_expiry")
    /\ IF _token_expires_at # NoDatetime
         THEN /\ pc' = [pc EXCEPT ![c] = "gt_check_now"]
              /\ call' = call
         ELSE /\ pc' = [pc EXCEPT ![c] = "gt_credentials"]
              /\ call' = [call EXCEPT ![c].found = "absent"]
    /\ UNCHANGED <<valves, _cached_token, _token_expires_at, now,
                   nCalls, nTicks, granted, flow>>

\* Line 59: and datetime.now() < self._token_expires_at.  The field is read
\* again: if it was cleared since line 58 the comparison raises TypeError.
GtCheckNow(c) ==
    /\ At(c, "gt_check_now")
    /\ IF _token_expires_at = NoDatetime
         THEN Raise(c, "TypeError")
         ELSE IF StillValid(now, _token_expires_at[1])
                THEN /\ pc' = [pc EXCEPT ![c] = "gt_hit"]
                     /\ call' = [call EXCEPT ![c].found = "hit"]
                ELSE /\ pc' = [pc EXCEPT ![c] = "gt_credentials"]
                     /\ call' = [call EXCEPT ![c].found = "expired"]
    /\ UNCHANGED <<valves, _cached_token, _token_expires_at, now,
                   nCalls, nTicks, granted, flow>>

\* A variant of line 60 that refreshes the token on a hit all the same
GtHit_Refresh(c) ==
    /\ At(c, "gt_hit")
    /\ call' = [call EXCEPT ![c].nTok = @ + 1]
    /\ pc' = [pc EXCEPT ![c] = "gt_wait"]
    /\ UNCHANGED <<valves, _cached_token, _token_expires_at, now,
                   nCalls, nTicks, granted, flow>>

\* Line 60: return self._cached_token
GtHit(c) ==
    /\ At(c, "gt_hit")
    /\ GtReturn(c, _cached_token, "hit")
    /\ UNCHANGED <<valves, _cached_token, _token_expires_at, now,
                   nCalls, nTicks, granted, flow>>

\* What _get_oauth_token returns when it fails: `return None` at line 63
\* (no client id or secret), line 86 (status other than 200) and line 90
\* (exception in the request or in handling the response).
FailureValue(outcome) == None

\* Lines 62-75: without client id or secret return None; else send the
\* client_credentials request to the token endpoint.
GtCredentials(c) ==
    /\ At(c, "gt_credentials")
    /\ IF Unconfigured(valves)
         THEN GtReturn(c, FailureValue("unconfigured"), "unconfigured")
         ELSE /\ call' = [call EXCEPT ![c].nTok = @ + 1]
              /\ pc' = [pc EXCEPT ![c] = "gt_wait"]
    /\ UNCHANGED <<valves, _cached_token, _token_expires_at, now,
                   nCalls, nTicks, granted, flow>>

\* A variant of lines 84-90 that sends the token request a second time
\* before giving up
GtFailed_Retry(c, outcome) ==
    /\ At(c, "gt_wait")
    /\ IF call[c].nTok < 2
         THEN /\ call' = [call EXCEPT ![c].nTok = @ + 1]
              /\ pc' = pc
         ELSE GtReturn(c, FailureValue(outcome), outcome)
    /\ UNCHANGED <<valves, _cached_token, _token_expires_at, now,
                   nCalls, nTicks, granted, flow>>

\* Lines 84-90: the request failed in transport, the status is not 200, or
\* the body of a 200 is no JSON: return None.
GtFailed(c, outcome) ==
    /\ At(c, "gt_wait")
    /\ GtReturn(c, FailureValue(outcome), outcome)
    /\ UNCHANGED <<valves, _cached_token, _token_expires_at, now,
                   nCalls, nTicks, granted, flow>>

\* Lines 77-79: status 200: self._cached_token = token_data.get("access_token")
GtStoreToken(c, body) ==
    /\ At(c, "gt_wait")
    /\ _cached_token' = AccessTokenOf(body, call[c].no)
    /\ call' = [call EXCEPT ![c].body = body]
    /\ pc' = [pc EXCEPT ![c] = "gt_store_expiry"]
    /\ granted' = IF body.access_token
                    THEN <<[at |-> now, expires_in |-> ExpiresInOf(body).v]>>
                    ELSE NoGrant
    /\ UNCHANGED <<valves, _token_expires_at, now,
                   nCalls, nTicks, flow>>

\* Lines 81-82: expires_in = token_data.get("expires_in", 3600);
\* self._token_expires_at = datetime.now() + timedelta(seconds=expires_in - 60).
\* An expires_in that is no number raises, and line 88 returns None.
GtStoreExpiry(c) ==
    /\ At(c, "gt_store_expiry")
    /\ LET e == ExpiresInOf(call[c].body)
           t == AccessTokenOf(call[c].body, call[c].no)
       IN IF IsNumber(e)
            THEN /\ _token_expires_at' = Datetime(ExpiresAt(now, e.v))
                 /\ granted' = IF Truthy(t) /\ _cached_token = t
                                THEN <<[granted[1] EXCEPT !.at = now]>>
                                ELSE granted
                 /\ pc' = [pc EXCEPT ![c] = "gt_return"]
                 /\ call' = [call EXCEPT ![c].body = NoBody]
            ELSE /\ GtReturn(c, FailureValue("exception"), "exception")
                 /\ UNCHANGED <<_token_expires_at, granted>>
    /\ UNCHANGED <<valves, _cached_token, now,
                   nCalls, nTicks, flow>>

\* Line 83: return self._cached_token
GtReturnFetched(c) ==
    /\ At(c, "gt_return")
    /\ GtReturn(c, _cached_token, "fetched")
    /\ UNCHANGED <<valves, _cached_token, _token_expires_at, now,
                   nCalls, nTicks, granted, flow>>

-----------------------------------------------------------------------------
(* Tools._make_authenticated_request and Tools.erpnext_business_query *)

\* A direct call of _make_authenticated_request; line 103 enters
\* _get_oauth_token.  The arguments are read at lines 105-126 only, and the
\* model draws them there.
StartDispatch(c) ==
    /\ Begin(c, "dispatch", "gt_check_token")
    /\ UNCHANGED <<valves, _cached_token, _token_expires_at, now,
                   nTicks, granted, flow>>

\* Lines 143-148: the user context erpnext_business_query builds.
QueryContext(user_email) ==
    IF Truthy(user_email)
      THEN <<[f \in {"user_email", "user_id"} |-> user_email]>>
      ELSE NoContext

\* erpnext_business_query(query, user_email), lines 141-156.
StartBusinessQuery(c) ==
    /\ Begin(c, "business_query", "gt_check_token")
    /\ UNCHANGED <<valves, _cached_token, _token_expires_at, now,
                   nTicks, granted, flow>>

\* A variant of lines 105-126 that falls back, for a call without user
\* context, on the user context of another request of the instance
Send_Reuse(c, method, uc) ==
    LET others == {d \in Callers \ {c} : call[d].user_context # NoContext}
        used == IF uc = NoContext /\ others # {}
                  THEN call[CHOOSE d \in others : TRUE].user_context
                  ELSE uc
    IN IF Upper(method) \in {"GET", "POST"}
         THEN /\ call' = [call EXCEPT
                     ![c].user_context = uc,
                     ![c].found = "",
                     ![c].outcome = "",
                     ![c].nTok = 0,
                     ![c].headers = BuildHeaders(call[c].token, used),
                     ![c].nRes = @ + 1]
              /\ pc' = [pc EXCEPT ![c] = "d_wait"]
         ELSE Raise(c, "ValueError")

\* Lines 105-126: build the headers and send the request, or raise
\* ValueError for a method that is neither GET nor POST.
Send(c, method, uc) ==
    IF Upper(method) \in {"GET", "POST"}
      THEN /\ call' = [call EXCEPT
                  ![c].user_context = uc,
                  ![c].found = "",
                  ![c].outcome = "",
                  ![c].nTok = 0,
                  ![c].headers = BuildHeaders(call[c].token, uc),
                  ![c].nRes = @ + 1]
           /\ pc' = [pc EXCEPT ![c] = "d_wait"]
      ELSE Raise(c, "ValueError")

\* _make_authenticated_request(method, endpoint, json_data, user_context)
DSend(c, method, uc) ==
    /\ At(c, "d_send")
    /\ call[c].op = "dispatch"
    /\ Send(c, method, uc)
    /\ UNCHANGED <<valves, _cached_token, _token_expires_at, now,
                   nCalls, nTicks, granted, flow>>

\* erpnext_business_query: _make_authenticated_request("POST", "/chat", ...)
DSendQuery(c, user_email) ==
    /\ At(c, "d_send")
    /\ call[c].op = "business_query"
    /\ Send(c, "POST", QueryContext(user_email))
    /\ UNCHANGED <<valves, _cached_token, _token_expires_at, now,
                   nCalls, nTicks, granted, flow>>

\* How erpnext_business_query answers a response (lines 158-206).
QueryResult(status) == CASE status = 200 -> "formatted"
                         [] status = 401 -> "authentication_failed"
                         [] OTHER -> "error"

\* A variant of the answer that drops the cached token on every status
\* other than 200
DRespond_Invalidate(c, status) ==
    /\ At(c, "d_wait")
    /\ call' = [call EXCEPT
           ![c].status = status,
           ![c].nInv = IF status = 200 THEN @ ELSE @ + 1,
           ![c].result = IF call[c].op = "business_query"
                           THEN QueryResult(status) ELSE "response"]
    /\ pc' = [pc EXCEPT ![c] = "done"]
    /\ _cached_token' = IF status = 200 THEN _cached_token ELSE None
    /\ UNCHANGED <<valves, _token_expires_at, now,
                   nCalls, nTicks, granted, flow>>

\* The resource server answers; _make_authenticated_request returns the
\* response as it is, and erpnext_business_query turns it into a text.
DRespond(c, status) ==
    /\ At(c, "d_wait")
    /\ call' = [call EXCEPT
           ![c].status = status,
           ![c].result = IF call[c].op = "business_query"
                           THEN QueryResult(status) ELSE "response"]
    /\ pc' = [pc EXCEPT ![c] = "done"]
    /\ UNCHANGED <<valves, _cached_token, _token_expires_at, now,
                   nCalls, nTicks, granted, flow>>

\* The resource request fails in transport (timeout, refused connection).
DTransportError(c) ==
    /\ At(c, "d_wait")
    /\ Raise(c, "RequestException")
    /\ UNCHANGED <<valves, _cached_token, _token_expires_at, now,
                   nCalls, nTicks, granted, flow>>

-----------------------------------------------------------------------------
(* Tools.clear_token_cache *)

\* Line 357: self._cached_token = None
ClearToken(c) ==
    /\ Begin(c, "clear_token_cache", "clear_expiry")
    /\ _cached_token' = None
    /\ granted' = NoGrant
    /\ UNCHANGED <<valves, _token_expires_at, now, nTicks, flow>>

\* Lines 358-359: self._token_expires_at = None; return
ClearExpiry(c) ==
    /\ At(c, "clear_expiry")
    /\ _token_expires_at' = NoDatetime
    /\ call' = [call EXCEPT ![c].nInv = @ + 1, ![c].result = "cleared"]
    /\ pc' = [pc EXCEPT ![c] = "done"]
    /\ UNCHANGED <<valves, _cached_token, now,
                   nCalls, nTicks, granted, flow>>

\* The caller takes the result of its call.
Finish(c) ==
    /\ pc[c] = "done"
    /\ pc' = [pc EXCEPT ![c] = "idle"]
    /\ call' = [call EXCEPT ![c] = NewCall("", 0)]
    /\ UNCHANGED <<valves, _cached_token, _token_expires_at, now,
                   nCalls, nTicks, granted, flow>>

-----------------------------------------------------------------------------
(* Environment *)

\* Time passes.
Tick(d) ==
    /\ Settled
    /\ nTicks < MaxTicks
    /\ now' = now + d
    /\ nTicks' = nTicks + 1
    /\ UNCHANGED <<valves, _cached_token, _token_expires_at, pc, call,
                   nCalls, granted, flow>>

ValveSettings ==
    {[CACHE_TOKEN |-> TRUE, OAUTH_CLIENT_ID |-> "", OAUTH_CLIENT_SECRET |-> ""],
     [CACHE_TOKEN |-> TRUE, OAUTH_CLIENT_ID |-> "abc", OAUTH_CLIENT_SECRET |-> ""],
     [CACHE_TOKEN |-> TRUE, OAUTH_CLIENT_ID |-> "", OAUTH_CLIENT_SECRET |-> "xyz"],
     [CACHE_TOKEN |-> TRUE, OAUTH_CLIENT_ID |-> "abc", OAUTH_CLIENT_SECRET |-> "xyz"],
     [CACHE_TOKEN |-> FALSE, OAUTH_CLIENT_ID |-> "abc", OAUTH_CLIENT_SECRET |-> "xyz"]}

\* The operator edits the valves (Tools.Valves, lines 19-43).
SetValves(v) ==
    /\ Settled
    /\ v # valves
    /\ valves' = v
    /\ UNCHANGED <<_cached_token, _token_expires_at, now, pc, call,
                   nCalls, nTicks, granted, flow>>

-----------------------------------------------------------------------------
(* get_oauth_token_automated: the authorization-code flow *)

\* The arguments of the invocation
CLIENT_ID == "abc"
CLIENT_SECRET == "xyz"
USERNAME == "Administrator"
PASSWORD == "admin"

\* Line 21
REDIRECT_URI == "http://localhost"

\* Line 34: the authorization endpoint (under base_url)
AUTH_URL == "/api/method/frappe.integrations.oauth2.authorize"

\* A variant of the list of lines 65 and 85 that has 304 in it
RedirectStatuses_With304 == {301, 302, 303, 304, 307, 308}

\* Lines 65 and 85: the statuses taken for a redirect
RedirectStatuses == {301, 302, 303, 307, 308}

\* Statuses the model lets the server answer with
LoginStatuses == {200, 401}
AuthorizeStatuses == {200, 302, 303, 304}
TokenStatuses == {200, 400}

\* Query parameters of a Location header, as "k=v" in the text
QueryParams ==
    {[k |-> "code", v |-> "X"], [k |-> "code", v |-> "Y"], [k |-> "code", v |-> ""],
     [k |-> "error_code", v |-> "7"], [k |-> "state", v |-> "s"]}

MaxQuery == 2

Queries == UNION {[1..n -> QueryParams] : n \in 0..MaxQuery}

\* headers.get('Location', ''): the empty text when there is no header
NoLocation == [path |-> "", query |-> <<>>]

\* A Location header: the text path?k=v&k=v
Locations ==
    {NoLocation} \cup [path : {REDIRECT_URI, AUTH_URL}, query : Queries]

\* 'authorize' in redirect_location (line 69)
HasAuthorize(loc) == loc.path = AUTH_URL

\* 'code=' in redirect_location (line 69): the text of some "k=v" holds it
HasCodeText(loc) ==
    \E i \in 1..Len(loc.query) : loc.query[i].k \in {"code", "error_code"}

\* A variant of line 69 without its second test: any target at the endpoint
NeedsApproval_AnyAuthorize(loc) == HasAuthorize(loc)

\* Line 69: the redirect leads to the confirmation page
NeedsApproval(loc) == HasAuthorize(loc) /\ ~HasCodeText(loc)

IsCode(p) == p.k = "code" /\ p.v # ""

\* parse_qs(urlparse(loc).query).get('code', []): the values of the `code`
\* parameters in order, blank values dropped (lines 89-90)
ParseQsCode(loc) ==
    LET codes == SelectSeq(loc.query, IsCode)
    IN [i \in 1..Len(codes) |-> codes[i].v]

\* Lines 27-32
AuthParams ==
    [client_id |-> CLIENT_ID, redirect_uri |-> REDIRECT_URI,
     response_type |-> "code", scope |-> "openid profile email all"]

\* Lines 75-81
ApproveData ==
    [client_id |-> CLIENT_ID, redirect_uri |-> REDIRECT_URI,
     response_type |-> "code", scope |-> "openid profile email all",
     authorize |-> "1"]

\* Lines 108-114
TokenData(code) ==
    [grant_type |-> "authorization_code", code |-> code,
     redirect_uri |-> REDIRECT_URI, client_id |-> CLIENT_ID,
     client_secret |-> CLIENT_SECRET]

\* A request sent: session tells whether it went through the Session of
\* line 37 or through requests.post
Request(kind, session, data) == [kind |-> kind, session |-> session, data |-> data]

\* An answer received (history): its status, and its Location header
Reply(status, loc) == [status |-> status, location |-> loc]

FlowIdle ==
    [pc |-> "idle", requests |-> <<>>, replies |-> <<>>,
     redirect_location |-> NoLocation,
     auth_code |-> None, result |-> "", exit |-> ""]

\* The function returns: result is what it returns, exit the place it left at.
FlowReturn(f, result, exit) ==
    [f EXCEPT !.pc = "done", !.result = result, !.exit = exit]

\* Lines 37-47: a fresh session, and the login request on it
FlowStart ==
    /\ flow.pc = "idle"
    /\ flow' = [flow EXCEPT
           !.pc = "login",
           !.requests = <<Request("login", TRUE, [usr |-> USERNAME, pwd |-> PASSWORD])>>]
    /\ UNCHANGED toolsVars

\* A variant of lines 49-62 without the test of the login status
FlowLogin_Unchecked(status) ==
    /\ flow.pc = "login"
    /\ flow' = [flow EXCEPT
           !.replies = Append(@, Reply(status, NoLocation)),
           !.pc = "authorize",
           !.requests = Append(@, Request("authorize", TRUE, AuthParams))]
    /\ UNCHANGED toolsVars

\* Lines 49-62: a login that is not 200 ends the flow; else the
\* authorization request goes out on the session, redirects not followed
FlowLogin(status) ==
    /\ flow.pc = "login"
    /\ LET f == [flow EXCEPT !.replies = Append(@, Reply(status, NoLocation))]
       IN flow' = IF status # 200
                    THEN FlowReturn(f, None, "login_failed")
                    ELSE [f EXCEPT
                             !.pc = "authorize",
                             !.requests = Append(@, Request("authorize", TRUE, AuthParams))]
    /\ UNCHANGED toolsVars

\* Lines 88-115: take the code from the redirect and send the exchange
\* request, or return None without a code
Extract(f) ==
    LET codes == ParseQsCode(f.redirect_location)
    IN IF Len(codes) > 0
         THEN [f EXCEPT
                  !.pc = "token",
                  !.auth_code = codes[1],
                  !.requests = Append(@, Request("token", FALSE, TokenData(codes[1])))]
         ELSE FlowReturn(f, None, "no_code")

\* Lines 65-101: the answer to the authorization request
FlowAuthorize(status, loc) ==
    /\ flow.pc = "authorize"
    /\ LET f == [flow EXCEPT !.replies = Append(@, Reply(status, loc))]
       IN flow' = IF status \in RedirectStatuses
                    THEN IF NeedsApproval(loc)
                           THEN [f EXCEPT
                                    !.pc = "approve",
                                    !.redirect_location = loc,
                                    !.requests = Append(@, Request("approve", TRUE, ApproveData))]
                           ELSE Extract([f EXCEPT !.redirect_location = loc])
                    ELSE FlowReturn(f, None, "unexpected_response")
    /\ UNCHANGED toolsVars

\* A variant of lines 85-86 that reads the Location of any answer
FlowApprove_AnyStatus(status, loc) ==
    /\ flow.pc = "approve"
    /\ flow' = Extract([flow EXCEPT !.replies = Append(@, Reply(status, loc)),
                                    !.redirect_location = loc])
    /\ UNCHANGED toolsVars

\* Lines 85-97: the answer to the approval request
FlowApprove(status, loc) ==
    /\ flow.pc = "approve"
    /\ LET f == [flow EXCEPT !.replies = Append(@, Reply(status, loc))]
       IN flow' = IF status \in RedirectStatuses
                    THEN Extract([f EXCEPT !.redirect_location = loc])
                    ELSE Extract(f)
    /\ UNCHANGED toolsVars

\* Line 119: the access token the exchange returns
AuthCodeToken == "token"

\* A variant of lines 117-131 that also puts the token into the cache of
\* the client-credentials provider
FlowToken_Cached(status, hasToken) ==
    /\ flow.pc = "token"
    /\ LET f == [flow EXCEPT !.replies = Append(@, Reply(status, NoLocation))]
       IN flow' = IF status = 200
                    THEN IF hasToken
                           THEN FlowReturn(f, AuthCodeToken, "token_obtained")
                           ELSE FlowReturn(f, "TypeError", "raised")
                    ELSE FlowReturn(f, None, "exchange_failed")
    /\ _cached_token' = IF status = 200 /\ hasToken
                          THEN AuthCodeToken ELSE _cached_token
    /\ UNCHANGED <<valves, _token_expires_at, now, pc, call,
                   nCalls, nTicks, granted>>

\* Lines 117-135: the answer to the exchange request.  access_token[:50] at
\* line 123 raises TypeError when the body has no access_token.
FlowToken(status, hasToken) ==
    /\ flow.pc = "token"
    /\ LET f == [flow EXCEPT !.replies = Append(@, Reply(status, NoLocation))]
       IN flow' = IF status = 200
                    THEN IF hasToken
                           THEN FlowReturn(f, AuthCodeToken, "token_obtained")
                           ELSE FlowReturn(f, "TypeError", "raised")
                    ELSE FlowReturn(f, None, "exchange_failed")
    /\ UNCHANGED toolsVars

\* A request fails in transport: the exception leaves the function
FlowTransportError ==
    /\ flow.pc \in {"login", "authorize", "approve", "token"}
    /\ flow' = FlowReturn(flow, "RequestException", "raised")
    /\ UNCHANGED toolsVars

-----------------------------------------------------------------------------
(* ERPNextClient of scripts/create-demo-data.py: the static token header *)

\* api_key and api_secret arguments of ERPNextClient (lines 18-21)
ApiKeys == {"", "key"}
ApiSecrets == {"", "secret"}

\* ERPNextClient._headers (lines 24-28)
ERPNextClient_headers(api_key, api_secret) ==
    IF Truthy(api_key) /\ Truthy(api_secret)
      THEN [h \in {"Content-Type", "Authorization"} |->
               IF h = "Content-Type" THEN "application/json"
               ELSE "token " \o api_key \o ":" \o api_secret]
      ELSE [h \in {"Content-Type"} |-> "application/json"]

-----------------------------------------------------------------------------
(* Specifications *)

\* Tools.__init__ (lines 45-48) with the default valves (lines 19-43).
ToolsInit ==
    /\ valves = [CACHE_TOKEN |-> TRUE, OAUTH_CLIENT_ID |-> "", OAUTH_CLIENT_SECRET |-> ""]
    /\ _cached_token = None
    /\ _token_expires_at = NoDatetime
    /\ now = 0
    /\ pc = [c \in Callers |-> "idle"]
    /\ call = [c \in Callers |-> NewCall("", 0)]
    /\ nCalls = 0
    /\ nTicks = 0
    /\ granted = NoGrant

Init == ToolsInit /\ flow = FlowIdle

\* One caller using the whole of Tools, one call at a time.
Next ==
    \/ StartGetToken(FirstCaller)
    \/ GtCheckToken(FirstCaller)
    \/ GtCheckExpiry(FirstCaller)
    \/ GtCheckNow(FirstCaller)
    \/ GtHit(FirstCaller)
    \/ GtCredentials(FirstCaller)
    \/ \E o \in FetchFailures : GtFailed(FirstCaller, o)
    \/ \E b \in TokenBodies : GtStoreToken(FirstCaller, b)
    \/ GtStoreExpiry(FirstCaller)
    \/ GtReturnFetched(FirstCaller)
    \/ StartDispatch(FirstCaller)
    \/ StartBusinessQuery(FirstCaller)
    \/ \E m \in Methods, uc \in UserContexts : DSend(FirstCaller, m, uc)
    \/ \E e \in UserEmails : DSendQuery(FirstCaller, e)
    \/ \E s \in Statuses : DRespond(FirstCaller, s)
    \/ DTransportError(FirstCaller)
    \/ ClearToken(FirstCaller)
    \/ ClearExpiry(FirstCaller)
    \/ Finish(FirstCaller)
    \/ \E d \in Ticks : Tick(d)
    \/ \E v \in ValveSettings : SetValves(v)

Spec == Init /\ [][Next]_vars

\* Several callers of the token provider and of clear_token_cache on one
\* shared Tools instance, interleaved step by step.
ConcNext ==
    \/ \E c \in Callers : StartGetToken(c)
    \/ \E c \in Callers : GtCheckToken(c)
    \/ \E c \in Callers : GtCheckExpiry(c)
    \/ \E c \in Callers : GtCheckNow(c)
    \/ \E c \in Callers : GtHit(c)
    \/ \E c \in Callers : GtCredentials(c)
    \/ \E c \in Callers, o \in FetchFailures : GtFailed(c, o)
    \/ \E c \in Callers, b \in TokenBodies : GtStoreToken(c, b)
    \/ \E c \in Callers : GtStoreExpiry(c)
    \/ \E c \in Callers : GtReturnFetched(c)
    \/ \E c \in Callers : ClearToken(c)
    \/ \E c \in Callers : ClearExpiry(c)
    \/ \E c \in Callers : Finish(c)
    \/ \E d \in Ticks : Tick(d)
    \/ \E v \in ValveSettings : SetValves(v)

ConcSpec == Init /\ [][ConcNext]_vars

\* One invocation of get_oauth_token_automated.
AuthNext ==
    \/ FlowStart
    \/ \E s \in LoginStatuses : FlowLogin(s)
    \/ \E s \in AuthorizeStatuses, loc \in Locations : FlowAuthorize(s, loc)
    \/ \E s \in AuthorizeStatuses, loc \in Locations : FlowApprove(s, loc)
    \/ \E s \in TokenStatuses, t \in BOOLEAN : FlowToken(s, t)
    \/ FlowTransportError

AuthSpec == Init /\ [][AuthNext]_vars

\* The same, where every request is answered or fails in the end.
AuthFairSpec == AuthSpec /\ WF_vars(AuthNext)

\* Valves and token responses of DispSpec: the defaults or credentials with
\* the cache on; a full token response
DispValves ==
    {[CACHE_TOKEN |-> TRUE, OAUTH_CLIENT_ID |-> "", OAUTH_CLIENT_SECRET |-> ""],
     [CACHE_TOKEN |-> TRUE, OAUTH_CLIENT_ID |-> "abc", OAUTH_CLIENT_SECRET |-> "xyz"]}
DispBodies ==
    {[access_token |-> TRUE, expires_in |-> [kind |-> "int", v |-> DEFAULT_EXPIRES_IN]]}

\* Several callers dispatching requests through one shared Tools instance,
\* each with its own user context.
DispNext ==
    \/ \E c \in Callers : StartDispatch(c)
    \/ \E c \in Callers : StartBusinessQuery(c)
    \/ \E c \in Callers : GtCheckToken(c)
    \/ \E c \in Callers : GtCheckExpiry(c)
    \/ \E c \in Callers : GtCheckNow(c)
    \/ \E c \in Callers : GtHit(c)
    \/ \E c \in Callers : GtCredentials(c)
    \/ \E c \in Callers, b \in DispBodies : GtStoreToken(c, b)
    \/ \E c \in Callers : GtStoreExpiry(c)
    \/ \E c \in Callers : GtReturnFetched(c)
    \/ \E c \in Callers, m \in Methods, uc \in UserContexts : DSend(c, m, uc)
    \/ \E c \in Callers, e \in UserEmails : DSendQuery(c, e)
    \/ \E c \in Callers, s \in Statuses : DRespond(c, s)
    \/ \E c \in Callers : Finish(c)
    \/ \E v \in DispValves : SetValves(v)

DispSpec == Init /\ [][DispNext]_vars

\* Answers the servers give in MixSpec: success or a redirect, to the
\* redirect URI with a code or back to the authorization endpoint
MixStatuses == {200, 302}
MixLocations ==
    {[path |-> REDIRECT_URI, query |-> <<[k |-> "code", v |-> "X"]>>],
     [path |-> AUTH_URL, query |-> <<>>]}

\* One invocation of get_oauth_token_automated beside a caller of
\* _get_oauth_token, in the same process.
MixNext ==
    \/ StartGetToken(FirstCaller)
    \/ GtCheckToken(FirstCaller)
    \/ GtCheckExpiry(FirstCaller)
    \/ GtCheckNow(FirstCaller)
    \/ GtHit(FirstCaller)
    \/ GtCredentials(FirstCaller)
    \/ \E o \in FetchFailures : GtFailed(FirstCaller, o)
    \/ \E b \in TokenBodies : GtStoreToken(FirstCaller, b)
    \/ GtStoreExpiry(FirstCaller)
    \/ GtReturnFetched(FirstCaller)
    \/ Finish(FirstCaller)
    \/ \E v \in ValveSettings : SetValves(v)
    \/ FlowStart
    \/ \E s \in MixStatuses : FlowLogin(s)
    \/ \E s \in MixStatuses, loc \in MixLocations : FlowAuthorize(s, loc)
    \/ \E s \in MixStatuses, loc \in MixLocations : FlowApprove(s, loc)
    \/ \E s \in MixStatuses, t \in BOOLEAN : FlowToken(s, t)
    \/ FlowTransportError

MixSpec == Init /\ [][MixNext]_vars

-----------------------------------------------------------------------------
(* Properties of the token cache and of the dispatcher *)

TokenLabels == {"gt_check_token", "gt_check_expiry", "gt_check_now"}

\* The cached token is within the lifetime the token endpoint gave it,
\* less the 60 seconds of safety: now < fetch_time + expires_in - 60.
WithinLifetime ==
    /\ granted # NoGrant
    /\ now < granted[1].at + granted[1].expires_in - 60

\* C1: _get_oauth_token never returns a token from the cache at a time at or
\* after that token's fetch time + expires_in - 60: whenever the cache test
\* of a call passes, the cached token is within its own lifetime.
C1_ServedOnlyWithinLifetime ==
    [][\A c \in Callers :
          (pc[c] = "gt_check_now" /\ pc'[c] = "gt_hit") => WithinLifetime]_vars

\* C2: of the callers that find the cache absent or expired at the same
\* time only one sends a request to the token endpoint: no two token
\* requests are in flight at once.
C2_OneRefreshInFlight ==
    \A c, d \in Callers :
        (/\ c # d
         /\ pc[c] = "gt_wait"
         /\ call[c].found \in {"absent", "expired"}
         /\ call[d].found \in {"absent", "expired"})
        => pc[d] # "gt_wait"

\* C3: a dispatch with a token that ends on a 401 has invalidated the cache exactly once
\* and has sent exactly two resource requests, the second being the retry.
C3_InvalidateAndRetryOnce ==
    \A c \in Callers :
        (pc[c] = "done" /\ call[c].op \in {"dispatch", "business_query"}
            /\ call[c].status = 401 /\ Truthy(call[c].token))
        => (call[c].nInv = 1 /\ call[c].nRes = 2)

\* C4: once the resource server has answered 401 to a request carrying the
\* cached token T, the cache no longer holds T when the dispatch ends, so
\* that T cannot be served from the cache again.
C4_RejectedTokenLeavesCache ==
    \A c \in Callers :
        (pc[c] = "done" /\ call[c].op \in {"dispatch", "business_query"}
            /\ call[c].status = 401 /\ Truthy(call[c].token))
        => _cached_token # call[c].token

\* C5: a call of _get_oauth_token that got no token from the cache while the
\* client id or the client secret is unset returns None, the failure value,
\* at once: it sends nothing to the token endpoint and leaves the cache.
C5_UnconfiguredNoNetwork ==
    [][\A c \in Callers :
          (/\ pc[c] = "gt_credentials"
           /\ pc'[c] # "gt_credentials"
           /\ (valves.OAUTH_CLIENT_ID = "" \/ valves.OAUTH_CLIENT_SECRET = ""))
          => (/\ pc'[c] \in {"done", "d_send"}
              /\ call'[c].token = None
              /\ call'[c].nTok = 0
              /\ _cached_token' = _cached_token
              /\ _token_expires_at' = _token_expires_at)]_vars

\* C5 witness: a call has ended that way.
C5_Witness ==
    \E c \in Callers :
        /\ pc[c] = "done"
        /\ call[c].op = "get_token"
        /\ call[c].outcome = "unconfigured"
        /\ call[c].result = None
        /\ valves.OAUTH_CLIENT_ID = "abc"

\* C8: with the cache in use, a cached token fetched at t0 with lifetime E
\* is served from the cache exactly at the times t < t0 + E - 60, and a call
\* at a later time goes on to fetch: the cache test of a call passes if and
\* only if the cached token is within its lifetime.
C8_ServedExactlyWithinLifetime ==
    [][\A c \in Callers :
          (/\ valves.CACHE_TOKEN
           /\ granted # NoGrant
           /\ pc[c] \in TokenLabels
           /\ pc'[c] \in {"gt_hit", "gt_credentials"})
          => (pc'[c] = "gt_hit" <=> WithinLifetime)]_vars

\* The identity headers of a set of headers
IdentityHeaders(h) ==
    (DOMAIN h) \cap {"X-MCP-User-ID", "X-MCP-User-Email", "X-MCP-User-Name"}

\* The headers named after the fields of a user context, with their values
Forwarded(h, uc) ==
    LET d == IF uc = NoContext THEN [f \in {} |-> ""] ELSE uc[1]
    IN /\ ("X-MCP-User-ID" \in DOMAIN h) <=> ("user_id" \in DOMAIN d)
       /\ ("X-MCP-User-Email" \in DOMAIN h) <=> ("user_email" \in DOMAIN d)
       /\ ("X-MCP-User-Name" \in DOMAIN h) <=> ("user_name" \in DOMAIN d)
       /\ "user_id" \in DOMAIN d => h["X-MCP-User-ID"] = d["user_id"]
       /\ "user_email" \in DOMAIN d => h["X-MCP-User-Email"] = d["user_email"]
       /\ "user_name" \in DOMAIN d => h["X-MCP-User-Name"] = d["user_name"]

\* C9 as stated: a request sent by _make_authenticated_request carries the
\* user-id, user-email and user-name headers exactly for the fields present
\* in the user context of the call, with their values.
C9_HeadersFollowContext ==
    \A c \in Callers :
        pc[c] = "d_wait" => Forwarded(call[c].headers, call[c].user_context)

\* C9, as far as the code goes: a request sent with a bearer token carries the identity
\* headers exactly for the fields present in the user context of the call,
\* with their values; a request sent without a token carries none of them.
C9_HeadersFollowContextWithToken ==
    \A c \in Callers :
        pc[c] = "d_wait" =>
            /\ ("Authorization" \in DOMAIN call[c].headers) <=> Truthy(call[c].token)
            /\ Truthy(call[c].token) =>
                   Forwarded(call[c].headers, call[c].user_context)
            /\ ~Truthy(call[c].token) => IdentityHeaders(call[c].headers) = {}

\* C9 witness: a request is out with a token and the e-mail of its context,
\* and no header for the fields the context lacks.
C9_Witness ==
    \E c \in Callers :
        /\ pc[c] = "d_wait"
        /\ Truthy(call[c].token)
        /\ call[c].user_context = <<[f \in {"user_email"} |-> "x@y.org"]>>
        /\ IdentityHeaders(call[c].headers) = {"X-MCP-User-Email"}
        /\ call[c].headers["X-MCP-User-Email"] = "x@y.org"

\* The cache holds a token the cache test would serve.
CacheUsable ==
    /\ Truthy(_cached_token)
    /\ _token_expires_at # NoDatetime
    /\ now < _token_expires_at[1]

\* C10 as stated: a request goes to the token endpoint only from a call of
\* _get_oauth_token that found the cache absent or expired.
C10_FetchOnlyOnMiss ==
    [][\A c \in Callers :
          (pc[c] # "gt_wait" /\ pc'[c] = "gt_wait") => ~CacheUsable]_vars

\* C10 amended: a request goes to the token endpoint only from a call of
\* _get_oauth_token that found the cache absent or expired, or that did not
\* consult the cache because CACHE_TOKEN is off; a call that returns the
\* cached token sends none; and a token enters the cache only as the answer
\* to a call waiting in _get_oauth_token (nothing refreshes it in the
\* background).
C10_FetchOnlyOnMissOrCacheOff ==
    [][/\ \A c \in Callers :
             (pc[c] # "gt_wait" /\ pc'[c] = "gt_wait") =>
                 /\ pc[c] = "gt_credentials"
                 /\ call[c].found \in {"absent", "expired", "disabled"}
                 /\ call[c].found # "disabled" => ~CacheUsable
                 /\ call'[c].nTok = 1
       /\ \A c \in Callers :
             (pc[c] = "gt_hit" /\ pc'[c] # "gt_hit") =>
                 (call'[c].nTok = 0 /\ pc'[c] \in {"done", "d_send"})
       /\ (_cached_token' # _cached_token /\ Truthy(_cached_token')) =>
             \E c \in Callers : pc[c] = "gt_wait" /\ pc'[c] = "gt_store_expiry"]_vars

\* C10 witness: a call has returned the cached token without a request, and
\* that token came from an earlier call.
C10_Witness ==
    \E c \in Callers :
        /\ pc[c] = "done"
        /\ call[c].op = "get_token"
        /\ call[c].outcome = "hit"
        /\ call[c].nTok = 0
        /\ call[c].result = Tok(1)
        /\ call[c].no = 2

-----------------------------------------------------------------------------
(* Properties of the authorization-code flow *)

\* The values of the `code` parameters of a redirect target
CodeValues(loc) ==
    {loc.query[i].v : i \in {j \in 1..Len(loc.query) :
                                 loc.query[j].k = "code" /\ loc.query[j].v # ""}}

\* The target has a query parameter named `code`, blank or not
HasCodeParam(loc) == \E i \in 1..Len(loc.query) : loc.query[i].k = "code"

\* The text of the target holds "code=": a parameter's name ends in "code"
TextHasCode(loc) ==
    \E i \in 1..Len(loc.query) : loc.query[i].k \in {"code", "error_code"}

KindsSent(f) == [i \in 1..Len(f.requests) |-> f.requests[i].kind]

IsRedirect(status) == status \in {301, 302, 303, 307, 308}

\* The answer to the authorization request, once received
AuthorizeAnswered(f) == Len(f.replies) >= 2
AuthorizeReply(f) == f.replies[2]

\* Request number n is the exchange of code x, sent outside the session.
IsExchange(f, n, x) ==
    /\ Len(f.requests) >= n
    /\ f.requests[n].kind = "token"
    /\ f.requests[n].data = [grant_type |-> "authorization_code", code |-> x,
                             redirect_uri |-> "http://localhost",
                             client_id |-> CLIENT_ID, client_secret |-> CLIENT_SECRET]

\* C6: when the redirect that answers the authorization request carries a
\* code parameter with value X, no approval request is sent and the next
\* request is the token exchange with code = X.
C6_CodeInRedirectSkipsApproval ==
    \A x \in {"X", "Y"} :
        (/\ AuthorizeAnswered(flow)
         /\ IsRedirect(AuthorizeReply(flow).status)
         /\ CodeValues(AuthorizeReply(flow).location) = {x})
        => (/\ IsExchange(flow, 3, x)
            /\ KindsSent(flow) = <<"login", "authorize", "token">>)

\* C6 witness: the exchange of X follows the authorization request directly,
\* the redirect being one to the authorization endpoint itself.
C6_Witness ==
    /\ flow.pc = "token"
    /\ AuthorizeReply(flow).location.path = AUTH_URL
    /\ CodeValues(AuthorizeReply(flow).location) = {"X"}
    /\ KindsSent(flow) = <<"login", "authorize", "token">>
    /\ flow.requests[3].data.code = "X"

\* An approval request: the parameters of the authorization request plus
\* the approval flag, on the session.
IsApproval(r) ==
    /\ r.kind = "approve"
    /\ r.session
    /\ DOMAIN r.data = (DOMAIN AuthParams) \cup {"authorize"}
    /\ \A k \in DOMAIN AuthParams : r.data[k] = AuthParams[k]
    /\ r.data["authorize"] = "1"

\* One approval request follows the authorization request, and when the
\* redirect that answers it carries the code y the exchange of y follows.
OneApprovalThenExchange(f) ==
    /\ Len(f.requests) >= 3
    /\ IsApproval(f.requests[3])
    /\ f.requests[2].session
    /\ Cardinality({i \in 1..Len(f.requests) : f.requests[i].kind = "approve"}) = 1
    /\ \A y \in {"X", "Y"} :
          (/\ Len(f.replies) >= 3
           /\ IsRedirect(f.replies[3].status)
           /\ CodeValues(f.replies[3].location) = {y})
          => (/\ IsExchange(f, 4, y)
              /\ KindsSent(f) = <<"login", "authorize", "approve", "token">>)

\* C7 as stated: when the redirect that answers the authorization request
\* points back to the authorization endpoint and carries no code, exactly
\* one approval request (same parameters plus the approval flag) is sent on
\* the session, and when its redirect carries code = Y the exchange is sent
\* with code = Y.
C7_ApprovalWhenNoCode ==
    (/\ AuthorizeAnswered(flow)
     /\ IsRedirect(AuthorizeReply(flow).status)
     /\ AuthorizeReply(flow).location.path = AUTH_URL
     /\ ~HasCodeParam(AuthorizeReply(flow).location))
    => OneApprovalThenExchange(flow)

\* C7, as far as the code goes: the same, for a redirect to the authorization endpoint whose
\* target does not hold the text "code=" anywhere (not as an empty `code=`,
\* not as the end of another parameter's name such as error_code=).
C7_ApprovalWhenNoCodeText ==
    (/\ AuthorizeAnswered(flow)
     /\ IsRedirect(AuthorizeReply(flow).status)
     /\ AuthorizeReply(flow).location.path = AUTH_URL
     /\ ~TextHasCode(AuthorizeReply(flow).location))
    => OneApprovalThenExchange(flow)

\* C7 witness: the exchange of Y is out after one approval round trip.
C7_Witness ==
    /\ flow.pc = "token"
    /\ KindsSent(flow) = <<"login", "authorize", "approve", "token">>
    /\ AuthorizeReply(flow).location.path = AUTH_URL
    /\ IsApproval(flow.requests[3])
    /\ CodeValues(flow.replies[3].location) = {"Y"}
    /\ flow.requests[4].data.code = "Y"

-----------------------------------------------------------------------------
(* Properties of the dispatcher without OAuth2 credentials, and of failures *)

\* The values of the static header `Authorization: token <key>:<secret>`
StaticTokens ==
    {ERPNextClient_headers(k, s)["Authorization"] :
         k \in ApiKeys \ {""}, s \in ApiSecrets \ {""}}

\* C11: when no client id/secret is configured, a request sent by
\* _make_authenticated_request carries the static header
\* `Authorization: token <key>:<secret>`, and the call has sent nothing to
\* the token endpoint.
C11_StaticHeaderWhenUnconfigured ==
    [][\A c \in Callers :
          (/\ pc[c] = "d_send"
           /\ pc'[c] = "d_wait"
           /\ call[c].outcome = "unconfigured")
          => (/\ call[c].nTok = 0
              /\ "Authorization" \in DOMAIN call'[c].headers
              /\ call'[c].headers["Authorization"] \in StaticTokens)]_vars

\* C12: when the token request of a dispatch failed (in transport, or with
\* a status other than 200), _make_authenticated_request sends no resource
\* request: a request is only sent with the header
\* `Authorization: Bearer <token>` of a token the provider returned.
C12_NoRequestAfterFailedFetch ==
    [][\A c \in Callers :
          (/\ pc[c] = "d_send"
           /\ pc'[c] = "d_wait"
           /\ call[c].outcome \in {"exception", "http_error"})
          => (/\ Truthy(call[c].token)
              /\ "Authorization" \in DOMAIN call'[c].headers
              /\ call'[c].headers["Authorization"] = "Bearer " \o call[c].token)]_vars

\* The failure kinds of _get_oauth_token the caller is to tell apart:
\* configuration, rejection by the token endpoint, transport.
FailureKinds == {"unconfigured", "http_error", "exception"}

\* C13: the value _get_oauth_token returns for one kind of failure is not
\* the value it returns for another kind, so that the caller can tell
\* configuration, rejection and transport failures apart from it.
C13_FailureKindsTellApart ==
    \A c \in Callers :
        (/\ pc[c] = "done"
         /\ call[c].op = "get_token"
         /\ call[c].outcome \in FailureKinds)
        => \A o \in FailureKinds \ {call[c].outcome} :
               call[c].result # FailureValue(o)

\* C14: a resource response with a status outside 2xx other than 401 ends
\* the dispatch as it is: _make_authenticated_request returns the response
\* (erpnext_business_query reports its status), exactly one resource request
\* was sent, and the token cache was not invalidated.
C14_OtherStatusReturnedOnce ==
    [][\A c \in Callers :
          (/\ pc[c] = "d_wait"
           /\ pc'[c] = "done"
           /\ call'[c].status \in Statuses \ {200, 401})
          => (/\ call'[c].nRes = 1
              /\ call'[c].nInv = 0
              /\ call'[c].result =
                    IF call[c].op = "dispatch" THEN "response" ELSE "error"
              /\ _cached_token' = _cached_token
              /\ _token_expires_at' = _token_expires_at)]_vars

\* C14 witness: a dispatch that carried the cached token has ended on a 500
\* and the token is still cached.
C14_Witness ==
    \E c \in Callers :
        /\ pc[c] = "done"
        /\ call[c].op = "dispatch"
        /\ call[c].status = 500
        /\ call[c].result = "response"
        /\ call[c].nRes = 1
        /\ Truthy(call[c].token)
        /\ _cached_token = call[c].token
        /\ _token_expires_at # NoDatetime

\* C15: when clear_token_cache returns, whatever the cache held before, the
\* cache holds no token and no expiry (so that the next _get_oauth_token
\* call with credentials has to ask the token endpoint).
C15_EmptyAfterClear ==
    \A c \in Callers :
        (pc[c] = "done" /\ call[c].op = "clear_token_cache")
        => (_cached_token = None /\ _token_expires_at = NoDatetime)

-----------------------------------------------------------------------------
(* The authorization-code flow beside the token cache *)

\* C16: no step of get_oauth_token_automated changes the cached token or the
\* cached expiry of the client-credentials provider, and the token of the
\* flow is never in that cache nor returned by _get_oauth_token.
C16_FlowLeavesCache ==
    [][/\ flow' # flow =>
             /\ _cached_token' = _cached_token
             /\ _token_expires_at' = _token_expires_at
       /\ _cached_token' # AuthCodeToken
       /\ \A c \in Callers :
             /\ call'[c].token # AuthCodeToken
             /\ call'[c].result # AuthCodeToken]_vars

\* C16 witness: the flow has returned its token, the cache holds the token
\* of the provider, and _get_oauth_token has returned that one from the
\* cache.
C16_Witness ==
    /\ flow.exit = "token_obtained"
    /\ flow.result = AuthCodeToken
    /\ Truthy(_cached_token)
    /\ _token_expires_at # NoDatetime
    /\ \E c \in Callers :
          /\ pc[c] = "done"
          /\ call[c].op = "get_token"
          /\ call[c].outcome = "hit"
          /\ call[c].result = _cached_token

\* The orders in which one invocation sends its requests
FlowOrders ==
    {<<"login", "authorize", "token">>,
     <<"login", "authorize", "approve", "token">>}

IsPrefix(s, t) == Len(s) <= Len(t) /\ \A i \in 1..Len(s) : s[i] = t[i]

\* The requests sent so far follow the order of the flow, each after the
\* step before it succeeded.
FlowInOrder(f) ==
    /\ \E o \in FlowOrders : IsPrefix(KindsSent(f), o)
    /\ Len(f.requests) <= 4
    /\ Len(f.replies) <= Len(f.requests)
    /\ \A n \in 1..Len(f.requests) :
          /\ f.requests[n].kind = "authorize" => f.replies[n - 1].status = 200
          /\ f.requests[n].kind = "approve" => IsRedirect(f.replies[n - 1].status)
          /\ f.requests[n].kind = "token" =>
                /\ IsRedirect(f.replies[n - 1].status)
                /\ f.requests[n].data.code \in CodeValues(f.replies[n - 1].location)

ApprovalAnswered(f) ==
    /\ Len(f.requests) >= 3
    /\ f.requests[3].kind = "approve"
    /\ Len(f.replies) >= 3

\* An answer that is a redirect whose target carries a code
CarriesCode(r) == IsRedirect(r.status) /\ CodeValues(r.location) # {}

\* C18: when the answer to the approval request is not a redirect whose
\* target carries a code (another status, or a redirect without code), the
\* invocation ends there with its failure value: no token is returned and
\* no exchange request is sent.
C18_ApprovalWithoutCodeEnds ==
    (ApprovalAnswered(flow) /\ ~CarriesCode(flow.replies[3]))
    => (/\ flow.pc = "done"
        /\ flow.result = None
        /\ flow.exit = "no_code"
        /\ KindsSent(flow) = <<"login", "authorize", "approve">>)

\* C18 witness: an invocation has ended after an approval answered 200 with
\* a Location that holds a code, which does not count.
C18_Witness ==
    /\ ApprovalAnswered(flow)
    /\ flow.replies[3].status = 200
    /\ CodeValues(flow.replies[3].location) = {"X"}
    /\ flow.pc = "done"
    /\ flow.result = None

-----------------------------------------------------------------------------
(* The provider does not retry *)

\* C20: one call of _get_oauth_token sends at most one request to the token
\* endpoint: whatever the answer (200, another status, a failure in
\* transport), the call goes on to return and never back to the request.
C20_ProviderNeverRetries ==
    [][\A c \in Callers :
          /\ call'[c].nTok <= 1
          /\ pc[c] = "gt_wait" =>
                pc'[c] \in {"gt_wait", "gt_store_expiry", "done", "d_send"}
          /\ (pc[c] = "gt_wait" /\ pc'[c] \in {"done", "d_send"}) =>
                (call'[c].token = None /\ call'[c].nTok = 1)]_vars

\* C20 witness: a call has returned its failure after one token request
\* answered with a status other than 200.
C20_Witness ==
    \E c \in Callers :
        /\ pc[c] = "done"
        /\ call[c].op = "get_token"
        /\ call[c].outcome = "http_error"
        /\ call[c].result = None
        /\ call[c].nTok = 1

-----------------------------------------------------------------------------
(* Properties of the cache as a whole *)

\* C21: in every reachable state the cache is whole: the cached token and
\* the cached expiry are both absent, or both set and from the same token
\* response (the expiry is that token's fetch time + expires_in - 60).
C21_CacheWhole ==
    /\ Truthy(_cached_token) <=> _token_expires_at # NoDatetime
    /\ Truthy(_cached_token) =>
          /\ granted # NoGrant
          /\ _token_expires_at =
                Datetime(granted[1].at + granted[1].expires_in - 60)

-----------------------------------------------------------------------------
(* User context is per call *)

\* The identity headers a request is to carry, from the user context of
\* its own call alone: one per field present, when there is a token.
OwnIdentity(uc, token) ==
    IF uc = NoContext \/ ~Truthy(token)
      THEN {}
      ELSE {<<HeaderOf(f), uc[1][f]>> : f \in DOMAIN uc[1]}

\* The identity headers a request carries, with their values
IdentityOf(h) == {<<n, h[n]>> : n \in IdentityHeaders(h)}

\* C22: the identity headers of a request are a function of the user
\* context argument of its own call (and of its having a token), whatever
\* the user contexts of the other requests of the instance, earlier or
\* still in flight: no context is kept and used again, and a request of a
\* call without user context carries no identity header.
C22_ContextNeverReused ==
    \A c \in Callers :
        pc[c] = "d_wait" =>
            /\ IdentityOf(call[c].headers) =
                  OwnIdentity(call[c].user_context, call[c].token)
            /\ call[c].user_context = NoContext =>
                  IdentityHeaders(call[c].headers) = {}

\* C22 witness: a request without user context has followed one with user
\* context on the same token, and carries no identity header.
C22_Witness ==
    \E c, d \in Callers :
        /\ pc[c] = "d_wait" /\ pc[d] = "d_wait"
        /\ call[c].no < call[d].no
        /\ call[c].user_context # NoContext
        /\ IdentityHeaders(call[c].headers) # {}
        /\ Truthy(call[c].token) /\ call[d].token = call[c].token
        /\ call[d].user_context = NoContext
        /\ IdentityHeaders(call[d].headers) = {}

-----------------------------------------------------------------------------
(* The cache and the configuration *)

\* The one credential set the token endpoint of the model issues tokens
\* for (the setting of ValveSettings with both client id and secret)
IssuedFor(v) == v.OAUTH_CLIENT_ID = "abc" /\ v.OAUTH_CLIENT_SECRET = "xyz"

\* C23: a token _get_oauth_token returns from the cache was issued for the
\* client id and secret configured at that time: once they are changed or
\* cleared, the token fetched for the previous ones is not returned.
C23_TokenOfConfiguredCredentials ==
    [][\A c \in Callers :
          (/\ pc[c] = "gt_hit"
           /\ pc'[c] # "gt_hit"
           /\ Truthy(call'[c].token))
          => IssuedFor(valves)]_vars

\* C24: a call of _get_oauth_token whose fetch failed (status other than
\* 200, failure in transport, exception while handling the response) has
\* left the cache as it found it: the cache does not hold the token of the
\* response that call received.
C24_FailedFetchLeavesCache ==
    \A c \in Callers :
        (/\ pc[c] = "done"
         /\ call[c].op = "get_token"
         /\ call[c].outcome \in FetchFailures
         /\ call[c].result = None)
        => _cached_token # Tok(call[c].no)

\* C25: with CACHE_TOKEN off, a call of _get_oauth_token with credentials
\* does not take its token from what other calls stored: it has sent one
\* request to the token endpoint and returns the token of the response to
\* that request (None when that response had none).
C25_CacheOffReturnsOwnToken ==
    \A c \in Callers :
        (/\ pc[c] = "done"
         /\ call[c].op = "get_token"
         /\ call[c].found = "disabled"
         /\ call[c].outcome = "fetched")
        => (/\ call[c].nTok = 1
            /\ call[c].result \in {Tok(call[c].no), None})

====
